---- MODULE Spec2Model ----
(***************************************************************************)
(* Model of bookworm's annotation menu, AnnotationMenu and SelectionRange   *)
(* of src/bookworm/annotation/annotation_gui.py: highlights ("quotes"),    *)
(* bookmarks and comments ("notes").                                       *)
(*                                                                         *)
(* Highlights: the state is the set of highlights stored for the current   *)
(* page of the open book.  A text position is an integer offset into the   *)
(* page text.  Two history variables record the last handled request:      *)
(* `before` is the stored set at the moment the handler was entered,       *)
(* `last` is the selection it was given and the outcome it announced.      *)
(* `commits` lists what the table held at each commit of the last handler. *)
(*                                                                         *)
(* Bookmarks and comments have their own tables and history variables.     *)
(* The three handlers write disjoint tables, so each is explored by a      *)
(* specification of its own: Spec, SpecBookmarks and SpecNotes.            *)
(***************************************************************************)
EXTENDS Integers, Sequences, FiniteSets

\* Largest text offset of the page.
MaxPos == 4
\* Largest row id the store hands out (caps the number of creations).
MaxId == 2
\* Longest text typed into a text entry dialog.
MaxText == 1
\* Number of pages of the open book.
MaxPage == 2
\* Characters per line of the page text.
LineLen == 2
\* Largest row id of the bookmark table (caps the number of creations).
MaxBkmId == 3
\* Largest row id of the comment table (caps the number of creations).
MaxNoteId == 2

VARIABLES quotes, nextId, before, last, commits,
          bookmarks, nextBkmId, current_page, bkmBefore, bkmLast, streak,
          notes, nextNoteId, noteBefore, noteLast

quoteVars == <<quotes, nextId, before, last>>
bkmVars == <<bookmarks, nextBkmId, current_page, bkmBefore, bkmLast, streak>>
noteVars == <<notes, nextNoteId, noteBefore, noteLast>>

vars == <<quoteVars, commits, bkmVars, noteVars>>

Positions == 0..MaxPos

Pages == 1..MaxPage

\* ------------------------------------------------------------------------
\* Text entered by the user
\* ------------------------------------------------------------------------

\* The characters a user types: a blank and a letter.
Chars == {" ", "t"}

RECURSIVE TextsUpTo(_)
TextsUpTo(n) ==
    IF n = 0 THEN {<<>>}
    ELSE LET shorter == TextsUpTo(n - 1)
         IN  shorter \cup {Append(t, c) : t \in {s \in shorter : Len(s) = n - 1}, c \in Chars}

\* str.strip(): drop leading and trailing blanks.
RECURSIVE LStrip(_)
LStrip(t) == IF t # <<>> /\ Head(t) = " " THEN LStrip(Tail(t)) ELSE t

RECURSIVE RStrip(_)
RStrip(t) ==
    IF t # <<>> /\ t[Len(t)] = " " THEN RStrip(SubSeq(t, 1, Len(t) - 1)) ELSE t

Strip(t) == RStrip(LStrip(t))

\* str.split(): the maximal blank-free words of a text, in order.
RECURSIVE SplitFrom(_, _, _)
SplitFrom(t, word, acc) ==
    IF t = <<>> THEN (IF word = <<>> THEN acc ELSE Append(acc, word))
    ELSE IF Head(t) = " "
         THEN SplitFrom(Tail(t), <<>>, IF word = <<>> THEN acc ELSE Append(acc, word))
         ELSE SplitFrom(Tail(t), Append(word, Head(t)), acc)

Split(t) == SplitFrom(t, <<>>, <<>>)

\* What the user does with a text entry dialog: cancel it, or press OK on a text.
DialogInputs ==
    {[ok |-> FALSE, text |-> <<>>]} \cup {[ok |-> TRUE, text |-> t] : t \in TextsUpTo(MaxText)}

\* A dialog helper that returns the text as typed.
get_text_unstripped(d) == IF d.ok THEN d.text ELSE <<>>

\* get_text_from_user: the stripped text on OK, nothing (the empty text
\* stands for None) on cancel or when the stripped text is empty.
get_text_from_user(d) == IF d.ok THEN Strip(d.text) ELSE <<>>

\* ------------------------------------------------------------------------
\* Selection and ranges
\* ------------------------------------------------------------------------

\* A selection text that also takes the character at the caret, so that a
\* bare caret selects one character.
GetStringSelectionWithCaret(x, y) == [i \in 1..(y - x + 1) |-> x + i - 1]

\* GetStringSelection for the selection (x, y): the characters at offsets
\* x .. y-1, each named by its offset; empty exactly when x = y.
GetStringSelection(x, y) == [i \in 1..(y - x) |-> x + i - 1]

SelectionRange(s, e) == [start |-> s, end |-> e]

\* A containment test that also accepts the offset just before the range.
ContainsOffByOne(r, p) == r.start - 1 <= p /\ p <= r.end

\* SelectionRange.__contains__
Contains(r, p) == r.start <= p /\ p <= r.end

\* ------------------------------------------------------------------------
\* The scan of onQuoteSelection
\* ------------------------------------------------------------------------

\* Quoter.get_for_page: the page's highlights ordered by start_pos; the
\* order of highlights with equal start_pos is not determined.
get_for_page(Q) ==
    LET n == Cardinality(Q)
    IN  {s \in [1..n -> Q] :
            /\ \A i, j \in 1..n : i # j => s[i] # s[j]
            /\ \A i, j \in 1..n : i < j => s[i].start_pos <= s[j].start_pos}

\* A loop body that lacks the branch moving the start of the range.
LoopBodyNoStartExtension(q, x, y) ==
    LET q_range == SelectionRange(q.start_pos, q.end_pos)
    IN  IF q_range.start = x /\ q_range.end = y THEN "Removed"
        ELSE IF q.start_pos < x /\ q.end_pos > y THEN "Rejected"
        ELSE IF Contains(q_range, x) /\ ~Contains(q_range, y) THEN "ExtendedEnd"
        ELSE "Continue"

\* A loop body that rejects a selection lying inside a range even when it
\* shares an endpoint with it.
LoopBodyInclusiveInside(q, x, y) ==
    LET q_range == SelectionRange(q.start_pos, q.end_pos)
    IN  IF q_range.start = x /\ q_range.end = y THEN "Removed"
        ELSE IF q.start_pos <= x /\ q.end_pos >= y THEN "Rejected"
        ELSE IF Contains(q_range, x) \/ Contains(q_range, y)
             THEN IF ~Contains(q_range, x) THEN "ExtendedStart"
                  ELSE IF ~Contains(q_range, y) THEN "ExtendedEnd"
                  ELSE "Continue"
             ELSE "Continue"

\* A loop body whose two extension branches are exchanged.
LoopBodySwappedExtension(q, x, y) ==
    LET q_range == SelectionRange(q.start_pos, q.end_pos)
    IN  IF q_range.start = x /\ q_range.end = y THEN "Removed"
        ELSE IF q.start_pos < x /\ q.end_pos > y THEN "Rejected"
        ELSE IF Contains(q_range, x) \/ Contains(q_range, y)
             THEN IF ~Contains(q_range, x) THEN "ExtendedEnd"
                  ELSE IF ~Contains(q_range, y) THEN "ExtendedStart"
                  ELSE "Continue"
             ELSE "Continue"

\* One iteration of the loop body for the stored highlight q: the outcome
\* it returns with, or "Continue" when the loop moves on to the next one.
LoopBody(q, x, y) ==
    LET q_range == SelectionRange(q.start_pos, q.end_pos)
    IN  IF q_range.start = x /\ q_range.end = y THEN "Removed"
        ELSE IF q.start_pos < x /\ q.end_pos > y THEN "Rejected"
        ELSE IF Contains(q_range, x) \/ Contains(q_range, y)
             THEN IF ~Contains(q_range, x) THEN "ExtendedStart"
                  ELSE IF ~Contains(q_range, y) THEN "ExtendedEnd"
                  ELSE "Continue"
             ELSE "Continue"

\* A loop that lets the last iteration that meets a case decide.
RECURSIVE ScanLastWins(_, _, _)
ScanLastWins(page, x, y) ==
    IF page = <<>> THEN [outcome |-> "Created", id |-> 0]
    ELSE LET rest == ScanLastWins(Tail(page), x, y)
             r == LoopBody(Head(page), x, y)
         IN  IF rest.outcome # "Created" \/ r = "Continue" THEN rest
             ELSE [outcome |-> r, id |-> Head(page).id]

\* The for loop over the page's highlights: the first iteration that
\* returns decides; falling off the end leads to the creation.
RECURSIVE Scan(_, _, _)
Scan(page, x, y) ==
    IF page = <<>> THEN [outcome |-> "Created", id |-> 0]
    ELSE LET r == LoopBody(Head(page), x, y)
         IN  IF r # "Continue" THEN [outcome |-> r, id |-> Head(page).id]
             ELSE Scan(Tail(page), x, y)

QuoteById(Q, id) == CHOOSE q \in Q : q.id = id

\* The tags appended to a new highlight: none unless Shift is held and the
\* tags dialog returns a text, then the words of that text.
NewTags(with_tags, d) ==
    IF with_tags /\ get_text_from_user(d) # <<>> THEN Split(get_text_from_user(d)) ELSE <<>>

\* A creation that stores the offset of the last selected character as
\* end_pos.
NewQuoteExclusiveEnd(id, x, y, tags) ==
    [id |-> id, start_pos |-> x, end_pos |-> y - 1,
     content |-> GetStringSelection(x, y), tags |-> tags]

\* quoter.create(title="", content=selected_text, start_pos=x, end_pos=y)
NewQuote(id, x, y, tags) ==
    [id |-> id, start_pos |-> x, end_pos |-> y,
     content |-> GetStringSelection(x, y), tags |-> tags]

\* An effect that writes the moved start into end_pos.
EffectWrongBound(Q, r, x, y, id, tags) ==
    IF r.outcome = "Removed" THEN Q \ {QuoteById(Q, r.id)}
    ELSE IF r.outcome = "Rejected" THEN Q
    ELSE IF r.outcome = "ExtendedStart"
         THEN (Q \ {QuoteById(Q, r.id)}) \cup {[QuoteById(Q, r.id) EXCEPT !.end_pos = x]}
    ELSE IF r.outcome = "ExtendedEnd"
         THEN (Q \ {QuoteById(Q, r.id)}) \cup {[QuoteById(Q, r.id) EXCEPT !.end_pos = y]}
    ELSE Q \cup {NewQuote(id, x, y, tags)}

\* An effect that announces the removal without deleting the highlight.
EffectKeepsRemoved(Q, r, x, y, id, tags) ==
    IF r.outcome \in {"Removed", "Rejected"} THEN Q
    ELSE IF r.outcome = "ExtendedStart"
         THEN (Q \ {QuoteById(Q, r.id)}) \cup {[QuoteById(Q, r.id) EXCEPT !.start_pos = x]}
    ELSE IF r.outcome = "ExtendedEnd"
         THEN (Q \ {QuoteById(Q, r.id)}) \cup {[QuoteById(Q, r.id) EXCEPT !.end_pos = y]}
    ELSE Q \cup {NewQuote(id, x, y, tags)}

\* An effect that takes a new content snapshot when it moves a bound.
EffectRefreshesContent(Q, r, x, y, id, tags) ==
    IF r.outcome = "Removed" THEN Q \ {QuoteById(Q, r.id)}
    ELSE IF r.outcome = "Rejected" THEN Q
    ELSE IF r.outcome = "ExtendedStart"
         THEN (Q \ {QuoteById(Q, r.id)}) \cup
              {[QuoteById(Q, r.id) EXCEPT !.start_pos = x,
                    !.content = GetStringSelection(x, QuoteById(Q, r.id).end_pos)]}
    ELSE IF r.outcome = "ExtendedEnd"
         THEN (Q \ {QuoteById(Q, r.id)}) \cup
              {[QuoteById(Q, r.id) EXCEPT !.end_pos = y,
                    !.content = GetStringSelection(QuoteById(Q, r.id).start_pos, y)]}
    ELSE Q \cup {NewQuote(id, x, y, tags)}

\* The stored set after the handler acted on decision r.
Effect(Q, r, x, y, id, tags) ==
    IF r.outcome = "Removed" THEN Q \ {QuoteById(Q, r.id)}
    ELSE IF r.outcome = "Rejected" THEN Q
    ELSE IF r.outcome = "ExtendedStart"
         THEN (Q \ {QuoteById(Q, r.id)}) \cup {[QuoteById(Q, r.id) EXCEPT !.start_pos = x]}
    ELSE IF r.outcome = "ExtendedEnd"
         THEN (Q \ {QuoteById(Q, r.id)}) \cup {[QuoteById(Q, r.id) EXCEPT !.end_pos = y]}
    ELSE Q \cup {NewQuote(id, x, y, tags)}

\* ------------------------------------------------------------------------
\* State machine
\* ------------------------------------------------------------------------

NoRequest == [outcome |-> "None", x |-> 0, y |-> 0, id |-> 0]

NoBookmarkRequest == [outcome |-> "None", position |-> 0, page |-> 1, name |-> <<>>]

NoStreak == [page |-> 1, lino |-> 0, n |-> 0]

NoNoteRequest == [outcome |-> "None", position |-> 0, id |-> 0, answer |-> [ok |-> FALSE, text |-> <<>>]]

Init ==
    /\ quotes = {}
    /\ nextId = 1
    /\ before = {}
    /\ last = NoRequest
    /\ commits = <<>>
    /\ bookmarks = {}
    /\ nextBkmId = 1
    /\ current_page = 1
    /\ bkmBefore = {}
    /\ bkmLast = NoBookmarkRequest
    /\ streak = NoStreak
    /\ notes = {}
    /\ nextNoteId = 1
    /\ noteBefore = {}
    /\ noteLast = NoNoteRequest

\* onQuoteSelection with the selection (x, y).  The Shift key state and the
\* user's answer to the tags dialog are inputs too; they are read only on
\* the path that creates a highlight.  quoter.create, quoter.delete and
\* q.session.commit() each commit; the tags are committed by a second
\* commit after the tags dialog has returned.
onQuoteSelection(x, y) ==
    /\ x <= y
    /\ before' = quotes
    /\ UNCHANGED <<bkmVars, noteVars>>
    /\ IF GetStringSelection(x, y) = <<>>
       THEN /\ last' = [outcome |-> "NoSelection", x |-> x, y |-> y, id |-> 0]
            /\ commits' = <<>>
            /\ UNCHANGED <<quotes, nextId>>
       ELSE \E page \in get_for_page(quotes) :
              LET r == Scan(page, x, y)
              IN  IF r.outcome = "Created"
                  THEN /\ nextId <= MaxId
                       /\ \E with_tags \in BOOLEAN, d \in DialogInputs :
                            /\ quotes' = Effect(quotes, r, x, y, nextId, NewTags(with_tags, d))
                            /\ commits' =
                                 IF NewTags(with_tags, d) = <<>>
                                 THEN <<Effect(quotes, r, x, y, nextId, <<>>)>>
                                 ELSE <<Effect(quotes, r, x, y, nextId, <<>>),
                                        Effect(quotes, r, x, y, nextId, NewTags(with_tags, d))>>
                       /\ nextId' = nextId + 1
                       /\ last' = [outcome |-> "Created", x |-> x, y |-> y, id |-> nextId]
                  ELSE /\ quotes' = Effect(quotes, r, x, y, nextId, <<>>)
                       /\ commits' = IF r.outcome = "Rejected" THEN <<>>
                                     ELSE <<Effect(quotes, r, x, y, nextId, <<>>)>>
                       /\ nextId' = nextId
                       /\ last' = [outcome |-> r.outcome, x |-> x, y |-> y, id |-> r.id]

Next == \E x, y \in Positions : onQuoteSelection(x, y)

Spec == Init /\ [][Next]_vars

\* ------------------------------------------------------------------------
\* Bookmarks
\* ------------------------------------------------------------------------

\* The line number that contentTextCtrl.PositionToXY gives for an offset of
\* the page text: the text is laid out in lines of LineLen characters.
PositionToXY(position) == position \div LineLen

\* Bookmarker.get_for_page: the bookmarks stored for a page.
bkm_get_for_page(B, page) == {bkm \in B : bkm.page = page}

\* A test that compares the offsets instead of the lines.
SamePosition(bkm, insertionPoint) == bkm.position = insertionPoint

\* The test of the deleting loop: the bookmark is on the caret's line.
SameLine(bkm, insertionPoint) == PositionToXY(bkm.position) = PositionToXY(insertionPoint)

\* A test that never takes the early return.
RemovesNever(count, name) == FALSE

\* A test that takes the early return for named bookmarks too.
RemovesIgnoringName(count, name) == count > 0

\* The test before the early return of _add_bookmark: `count and not name`.
RemovesOnly(count, name) == count > 0 /\ name = <<>>

\* Bookmarker.create(title=name, position=insertionPoint) on the current page.
NewBookmark(id, page, name, insertionPoint) ==
    [id |-> id, page |-> page, position |-> insertionPoint, title |-> name]

\* The run of successive unnamed requests on one line that began on a line
\* without a bookmark, counted up to three.
NextStreak(page, lino, count) ==
    IF streak.n \in {1, 2} /\ streak.page = page /\ streak.lino = lino
    THEN [streak EXCEPT !.n = streak.n + 1]
    ELSE IF count = 0 THEN [page |-> page, lino |-> lino, n |-> 1]
    ELSE NoStreak

\* _add_bookmark(name) with the caret at insertionPoint: every bookmark of
\* the current page on the caret's line is deleted; unless one was deleted
\* and no name is given, a bookmark is created at the caret.
add_bookmark(name, insertionPoint) ==
    LET onLine == {bkm \in bkm_get_for_page(bookmarks, current_page) :
                       SameLine(bkm, insertionPoint)}
        count == Cardinality(onLine)
    IN  /\ bkmBefore' = bookmarks
        /\ IF RemovesOnly(count, name)
           THEN /\ bookmarks' = bookmarks \ onLine
                /\ nextBkmId' = nextBkmId
                /\ bkmLast' = [outcome |-> "Removed", position |-> insertionPoint,
                               page |-> current_page, name |-> name]
           ELSE /\ nextBkmId <= MaxBkmId
                /\ bookmarks' = (bookmarks \ onLine) \cup
                       {NewBookmark(nextBkmId, current_page, name, insertionPoint)}
                /\ nextBkmId' = nextBkmId + 1
                /\ bkmLast' = [outcome |-> "Added", position |-> insertionPoint,
                               page |-> current_page, name |-> name]
        /\ streak' = IF name = <<>>
                     THEN NextStreak(current_page, PositionToXY(insertionPoint), count)
                     ELSE NoStreak
        /\ UNCHANGED <<current_page, quoteVars, commits, noteVars>>

\* onAddBookmark with the caret at insertionPoint.
onAddBookmark(insertionPoint) == add_bookmark(<<>>, insertionPoint)

\* onAddNamedBookmark with the caret at insertionPoint and the user's
\* answer d to the name dialog: nothing happens without a name.
onAddNamedBookmark(insertionPoint, d) ==
    IF get_text_from_user(d) # <<>>
    THEN add_bookmark(get_text_from_user(d), insertionPoint)
    ELSE /\ bkmBefore' = bookmarks
         /\ bkmLast' = [outcome |-> "Cancelled", position |-> insertionPoint,
                        page |-> current_page, name |-> <<>>]
         /\ streak' = NoStreak
         /\ UNCHANGED <<bookmarks, nextBkmId, current_page, quoteVars, commits, noteVars>>

\* The reader turns to another page.
GoToPage(page) ==
    /\ page # current_page
    /\ current_page' = page
    /\ streak' = NoStreak
    /\ UNCHANGED <<bookmarks, nextBkmId, bkmBefore, bkmLast, quoteVars, commits, noteVars>>

NextBookmarks ==
    \/ \E insertionPoint \in Positions : onAddBookmark(insertionPoint)
    \/ \E insertionPoint \in Positions, d \in DialogInputs :
          onAddNamedBookmark(insertionPoint, d)
    \/ \E page \in Pages : GoToPage(page)

SpecBookmarks == Init /\ [][NextBookmarks]_vars

\* ------------------------------------------------------------------------
\* Comments
\* ------------------------------------------------------------------------

\* NoteTaker.create(title="", content=comment_text, position=insertionPoint)
NewNote(id, insertionPoint, comment_text, tags) ==
    [id |-> id, position |-> insertionPoint, content |-> comment_text, tags |-> tags]

\* onAddNote with the caret at insertionPoint and the user's answer d to
\* the comment dialog: without a text nothing happens.  Otherwise the
\* comment is created and committed; with Shift held the tags dialog
\* follows, and its words are appended and committed by a second commit.
onAddNote(insertionPoint, d) ==
    /\ noteBefore' = notes
    /\ UNCHANGED <<quoteVars, bkmVars>>
    /\ IF get_text_from_user(d) = <<>>
       THEN /\ noteLast' = [outcome |-> "Nothing", position |-> insertionPoint,
                            id |-> 0, answer |-> d]
            /\ commits' = <<>>
            /\ UNCHANGED <<notes, nextNoteId>>
       ELSE /\ nextNoteId <= MaxNoteId
            /\ \E with_tags \in BOOLEAN, t \in DialogInputs :
                 LET created == NewNote(nextNoteId, insertionPoint,
                                        get_text_from_user(d), <<>>)
                     tagged == NewNote(nextNoteId, insertionPoint,
                                       get_text_from_user(d), NewTags(with_tags, t))
                 IN  /\ notes' = notes \cup {tagged}
                     /\ commits' = IF NewTags(with_tags, t) = <<>>
                                   THEN <<notes \cup {created}>>
                                   ELSE <<notes \cup {created}, notes \cup {tagged}>>
            /\ nextNoteId' = nextNoteId + 1
            /\ noteLast' = [outcome |-> "Created", position |-> insertionPoint,
                            id |-> nextNoteId, answer |-> d]

NextNotes == \E insertionPoint \in Positions, d \in DialogInputs : onAddNote(insertionPoint, d)

SpecNotes == Init /\ [][NextNotes]_vars

\* ------------------------------------------------------------------------
\* Vocabulary of the properties
\* ------------------------------------------------------------------------

\* The inclusive intervals of two stored highlights share a position.
Overlap(a, b) == a.start_pos <= b.end_pos /\ b.start_pos <= a.end_pos

NonOverlapping(Q) == \A a, b \in Q : a.id # b.id => ~Overlap(a, b)

\* The last request carried a non-empty selection and went through the scan.
Handled == last.outcome \notin {"None", "NoSelection"}

\* The cases of the resolution rules for a stored range [s, e] and a
\* candidate [x, y], stated on the bounds.
IsExact(q, x, y) == q.start_pos = x /\ q.end_pos = y
IsInside(q, x, y) == q.start_pos < x /\ q.end_pos > y
IsExtendEnd(q, x, y) ==
    /\ q.start_pos <= x /\ x <= q.end_pos
    /\ ~(q.start_pos <= y /\ y <= q.end_pos)
IsExtendStart(q, x, y) ==
    /\ q.start_pos <= y /\ y <= q.end_pos
    /\ ~(q.start_pos <= x /\ x <= q.end_pos)
MatchesCase(q, x, y) ==
    IsExact(q, x, y) \/ IsInside(q, x, y) \/ IsExtendEnd(q, x, y) \/ IsExtendStart(q, x, y)

\* The stored highlight that carried id i before the last request.
Old(i) == CHOOSE q \in before : q.id = i

\* ------------------------------------------------------------------------
\* C1
\* ------------------------------------------------------------------------

\* C1: after any sequence of non-empty selections on a page that starts
\* without highlights, no two stored highlights have overlapping inclusive
\* intervals.
C1_NoOverlap == NonOverlapping(quotes)

\* ------------------------------------------------------------------------
\* C2
\* ------------------------------------------------------------------------

\* C2: a selection [x, y] equal to a stored range is answered Removed: that
\* highlight is deleted, nothing is created and no stored range is [x, y]
\* afterwards.
C2_ExactMatchRemoved ==
    \A q \in before :
        (Handled /\ IsExact(q, last.x, last.y)) =>
            /\ last.outcome = "Removed"
            /\ quotes = before \ {q}
            /\ \A p \in quotes : ~IsExact(p, last.x, last.y)

\* ------------------------------------------------------------------------
\* C3
\* ------------------------------------------------------------------------

\* C3: a selection [x, y] strictly inside a stored range (s < x and e > y)
\* is answered Rejected and the stored highlights are unchanged.
C3_InsideRejected ==
    \A q \in before :
        (Handled /\ IsInside(q, last.x, last.y)) =>
            /\ last.outcome = "Rejected"
            /\ quotes = before

\* ------------------------------------------------------------------------
\* C4
\* ------------------------------------------------------------------------

\* C4: for a stored range [s, e] and a selection with s <= x <= e and
\* y > e the outcome is ExtendedEnd and that stored range becomes [s, y].
C4_ExtendedEnd ==
    \A q \in before :
        (Handled /\ q.start_pos <= last.x /\ last.x <= q.end_pos /\ last.y > q.end_pos) =>
            /\ last.outcome = "ExtendedEnd"
            /\ [q EXCEPT !.end_pos = last.y] \in quotes

\* ------------------------------------------------------------------------
\* C5
\* ------------------------------------------------------------------------

\* C5 as stated: for a stored range [s, e] and a selection with
\* s <= y <= e and x < s the outcome is ExtendedStart and that stored range
\* becomes [x, e].
C5_ExtendedStart ==
    \A q \in before :
        (Handled /\ q.start_pos <= last.y /\ last.y <= q.end_pos /\ last.x < q.start_pos) =>
            /\ last.outcome = "ExtendedStart"
            /\ [q EXCEPT !.start_pos = last.x] \in quotes

\* No other stored highlight that the page order can put before q meets
\* one of the cases for the candidate [x, y].
NoEarlierMatch(Q, q, x, y) ==
    \A p \in Q : (p.id # q.id /\ p.start_pos <= q.start_pos) => ~MatchesCase(p, x, y)

\* C5 amended: for a stored range [s, e] and a selection with s <= y <= e
\* and x < s, when no stored range that precedes it in page order meets one
\* of the cases, the outcome is ExtendedStart and that stored range becomes
\* [x, e].
C5_ExtendedStartFirstMatch ==
    \A q \in before :
        ( /\ Handled
          /\ q.start_pos <= last.y /\ last.y <= q.end_pos /\ last.x < q.start_pos
          /\ NoEarlierMatch(before, q, last.x, last.y) ) =>
            /\ last.outcome = "ExtendedStart"
            /\ last.id = q.id
            /\ [q EXCEPT !.start_pos = last.x] \in quotes

\* A second highlight is stored behind another one and a selection reaching
\* from the gap into it has moved its start.
C5_Witness ==
    /\ last.outcome = "ExtendedStart"
    /\ Cardinality(before) = 2
    /\ \E q \in before :
          /\ q.id = last.id
          /\ q.start_pos <= last.y /\ last.y <= q.end_pos /\ last.x < q.start_pos
          /\ \E p \in before : p.start_pos < q.start_pos
          /\ [q EXCEPT !.start_pos = last.x] \in quotes

\* ------------------------------------------------------------------------
\* C6
\* ------------------------------------------------------------------------

\* The candidate [x, y] shares no position with the stored highlight q.
Disjoint(q, x, y) == y < q.start_pos \/ x > q.end_pos

\* C6: a selection [x, y] disjoint from every stored range is answered
\* Created: a new highlight [x, y] is stored, no existing highlight is
\* changed, and a pairwise non-overlapping page stays pairwise
\* non-overlapping.
C6_DisjointCreated ==
    (Handled /\ \A q \in before : Disjoint(q, last.x, last.y)) =>
        /\ last.outcome = "Created"
        /\ \E n \in quotes :
              /\ n.start_pos = last.x /\ n.end_pos = last.y
              /\ \A q \in before : q.id # n.id
              /\ quotes = before \cup {n}
        /\ NonOverlapping(before) => NonOverlapping(quotes)

\* A selection next to a stored highlight, sharing no position with it, has
\* been stored as a second highlight.
C6_Witness ==
    /\ last.outcome = "Created"
    /\ before # {}
    /\ \A q \in before : Disjoint(q, last.x, last.y)
    /\ \E q \in before : q.end_pos + 1 = last.x
    /\ Cardinality(quotes) = Cardinality(before) + 1
    /\ NonOverlapping(quotes)

\* ------------------------------------------------------------------------
\* C7
\* ------------------------------------------------------------------------

\* The stored highlights for which the loop body returns for [x, y].
Matching(Q, x, y) == {q \in Q : LoopBody(q, x, y) # "Continue"}

\* C7 as stated: on a pairwise non-overlapping page at most one stored
\* range meets any of the cases 1-4 for a candidate.
C7_AtMostOneMatch ==
    NonOverlapping(quotes) =>
        \A x, y \in Positions : x < y => Cardinality(Matching(quotes, x, y)) <= 1

\* C7 amended: on a pairwise non-overlapping page at most one stored range
\* meets one of the cases 1-3 (exact, strictly containing, holding x but
\* not y) and at most one meets case 4 (holding y but not x).
C7_AtMostOnePerEnd ==
    NonOverlapping(quotes) =>
        \A x, y \in Positions : x < y =>
            /\ Cardinality({q \in quotes :
                   LoopBody(q, x, y) \in {"Removed", "Rejected", "ExtendedEnd"}}) <= 1
            /\ Cardinality({q \in quotes : LoopBody(q, x, y) = "ExtendedStart"}) <= 1

\* A selection that starts in one highlight and ends in the next one has
\* been handled on a pairwise non-overlapping page.
C7_Witness ==
    /\ Handled
    /\ NonOverlapping(before)
    /\ Cardinality(Matching(before, last.x, last.y)) = 2
    /\ \E q \in before : LoopBody(q, last.x, last.y) = "ExtendedEnd"
    /\ \E q \in before : LoopBody(q, last.x, last.y) = "ExtendedStart"

\* ------------------------------------------------------------------------
\* C8
\* ------------------------------------------------------------------------

\* C8: start_pos <= end_pos holds for every stored highlight in every
\* reachable state.
C8_StartBeforeEnd == \A q \in quotes : q.start_pos <= q.end_pos

\* A highlight that was created and later had a bound moved is stored.
C8_Witness ==
    /\ last.outcome \in {"ExtendedStart", "ExtendedEnd"}
    /\ \E q \in quotes :
          /\ q.id = last.id
          /\ q.start_pos < q.end_pos
          /\ Len(q.content) < q.end_pos - q.start_pos

\* ------------------------------------------------------------------------
\* C9
\* ------------------------------------------------------------------------

\* The state effect that belongs to the outcome of the last request.
EffectOfOutcome ==
    IF last.outcome = "Removed"
    THEN \E q \in before :
            /\ q.id = last.id /\ IsExact(q, last.x, last.y)
            /\ quotes = before \ {q}
    ELSE IF last.outcome = "Rejected" THEN quotes = before
    ELSE IF last.outcome = "ExtendedEnd"
    THEN \E q \in before :
            /\ q.id = last.id
            /\ quotes = (before \ {q}) \cup {[q EXCEPT !.end_pos = last.y]}
    ELSE IF last.outcome = "ExtendedStart"
    THEN \E q \in before :
            /\ q.id = last.id
            /\ quotes = (before \ {q}) \cup {[q EXCEPT !.start_pos = last.x]}
    ELSE IF last.outcome = "Created"
    THEN \E n \in quotes :
            /\ n.id = last.id /\ n.start_pos = last.x /\ n.end_pos = last.y
            /\ \A q \in before : q.id # n.id
            /\ quotes = before \cup {n}
    ELSE FALSE

\* C9 as stated: every request with x <= y, x = y included, ends in exactly
\* one of Removed, Rejected, ExtendedEnd, ExtendedStart, Created, with the
\* state effect of that outcome.
C9_AlwaysOneOutcome ==
    last.outcome # "None" =>
        /\ last.x <= last.y
        /\ last.outcome \in {"Removed", "Rejected", "ExtendedEnd", "ExtendedStart", "Created"}
        /\ EffectOfOutcome

\* C9 amended: every request with x < y ends in exactly one of Removed,
\* Rejected, ExtendedEnd, ExtendedStart, Created, with the state effect of
\* that outcome; a request with x = y is answered "No selection" and
\* changes nothing.
C9_OneOutcomeWhenNonEmpty ==
    last.outcome # "None" =>
        /\ last.x <= last.y
        /\ IF last.x < last.y
           THEN /\ last.outcome \in
                      {"Removed", "Rejected", "ExtendedEnd", "ExtendedStart", "Created"}
                /\ EffectOfOutcome
           ELSE /\ last.outcome = "NoSelection"
                /\ quotes = before

\* A stored highlight has been removed by selecting it again while another
\* highlight stays on the page.
C9_Witness ==
    /\ last.outcome = "Removed"
    /\ last.x < last.y
    /\ Cardinality(before) = 2
    /\ Cardinality(quotes) = 1

\* ------------------------------------------------------------------------
\* C10
\* ------------------------------------------------------------------------

\* The outcome of the first case, in the order exact, contained,
\* extend-end, extend-start, that the stored range q meets.
CaseOutcome(q, x, y) ==
    IF IsExact(q, x, y) THEN "Removed"
    ELSE IF IsInside(q, x, y) THEN "Rejected"
    ELSE IF IsExtendEnd(q, x, y) THEN "ExtendedEnd"
    ELSE IF IsExtendStart(q, x, y) THEN "ExtendedStart"
    ELSE "Created"

\* C10: the stored ranges are scanned by ascending start_pos and the cases
\* are tried per range in the order exact, contained, extend-end,
\* extend-start; the first scanned range that meets a case alone decides
\* the outcome, and no other stored range is modified or deleted.
C10_FirstMatchWins ==
    Handled =>
        IF \E q \in before : MatchesCase(q, last.x, last.y)
        THEN \E q \in before :
                /\ q.id = last.id
                /\ MatchesCase(q, last.x, last.y)
                /\ last.outcome = CaseOutcome(q, last.x, last.y)
                /\ \A p \in before :
                      (p.start_pos < q.start_pos) => ~MatchesCase(p, last.x, last.y)
                /\ \A p \in before : p.id # q.id => p \in quotes
                /\ \A p \in quotes : p.id # q.id => p \in before
        ELSE /\ last.outcome = "Created"
             /\ before \subseteq quotes

\* Two stored ranges meet a case for the selection and the one with the
\* smaller start_pos has decided.
C10_Witness ==
    /\ Handled
    /\ \E q, p \in before :
          /\ q.id = last.id
          /\ p.id # q.id
          /\ q.start_pos < p.start_pos
          /\ MatchesCase(q, last.x, last.y)
          /\ MatchesCase(p, last.x, last.y)
          /\ p \in quotes

\* ------------------------------------------------------------------------
\* C11
\* ------------------------------------------------------------------------

\* The bookmarks of B on the given line of a page.
OnLine(B, page, lino) == {b \in B : b.page = page /\ b.position \div LineLen = lino}

Lines == {p \div LineLen : p \in Positions}

\* C11: after any sequence of add-bookmark requests, unnamed and named, at
\* any positions, each page holds at most one bookmark per line.
C11_OnePerLine ==
    \A page \in Pages, lino \in Lines : Cardinality(OnLine(bookmarks, page, lino)) <= 1

\* A bookmark has been added at another offset of a line that held one, and
\* the page holds a bookmark on another line too.
C11_Witness ==
    /\ bkmLast.outcome = "Added"
    /\ \E b \in OnLine(bkmBefore, bkmLast.page, bkmLast.position \div LineLen) :
          b.position # bkmLast.position
    /\ Cardinality(bkm_get_for_page(bookmarks, bkmLast.page)) = 2

\* ------------------------------------------------------------------------
\* C12
\* ------------------------------------------------------------------------

OnOccupiedLine ==
    /\ bkmLast.outcome \in {"Added", "Removed"}
    /\ OnLine(bkmBefore, bkmLast.page, bkmLast.position \div LineLen) # {}

\* C13 as stated: a bookmark request, with or without a title, on a line
\* that already has a bookmark deletes the existing bookmark, creates none
\* and signals removed.
C13_OccupiedLineRemoves ==
    OnOccupiedLine =>
        /\ bkmLast.outcome = "Removed"
        /\ bookmarks = bkmBefore \ OnLine(bkmBefore, bkmLast.page, bkmLast.position \div LineLen)

\* C13 amended: a bookmark request without a title on a line that already
\* has a bookmark deletes the existing bookmark, creates none and signals
\* removed.
C13_UnnamedOccupiedLineRemoves ==
    (OnOccupiedLine /\ bkmLast.name = <<>>) =>
        /\ bkmLast.outcome = "Removed"
        /\ bookmarks = bkmBefore \ OnLine(bkmBefore, bkmLast.page, bkmLast.position \div LineLen)
        /\ OnLine(bookmarks, bkmLast.page, bkmLast.position \div LineLen) = {}

\* An unnamed request has removed a named bookmark from its line while
\* another bookmark of the page stays.
C13_Witness ==
    /\ OnOccupiedLine
    /\ bkmLast.name = <<>>
    /\ bkmLast.outcome = "Removed"
    /\ \E b \in bkmBefore \ bookmarks : b.title # <<>>
    /\ bkm_get_for_page(bookmarks, bkmLast.page) # {}

\* ------------------------------------------------------------------------
\* C20
\* ------------------------------------------------------------------------

\* C20: a named-bookmark request with a non-empty title on a line that
\* already holds bookmarks deletes every bookmark on that line of the
\* current page and creates one bookmark at the caret with that title; the
\* line then holds exactly one bookmark and the bookmarks on other lines
\* are unchanged.
C20_NamedReplaces ==
    (OnOccupiedLine /\ bkmLast.name # <<>>) =>
        LET old == OnLine(bkmBefore, bkmLast.page, bkmLast.position \div LineLen)
        IN  /\ bkmLast.outcome = "Added"
            /\ \E n \in bookmarks :
                  /\ \A b \in bkmBefore : b.id # n.id
                  /\ n.page = bkmLast.page
                  /\ n.position = bkmLast.position
                  /\ n.title = bkmLast.name
                  /\ bookmarks = (bkmBefore \ old) \cup {n}
                  /\ OnLine(bookmarks, bkmLast.page, bkmLast.position \div LineLen) = {n}
            /\ bkmBefore \ old \subseteq bookmarks

\* A named request has replaced the bookmark of a line by one at another
\* offset while a bookmark on another line stays.
C20_Witness ==
    /\ OnOccupiedLine
    /\ bkmLast.name # <<>>
    /\ bkmLast.outcome = "Added"
    /\ \E b \in bkmBefore \ bookmarks :
          b.page = bkmLast.page /\ b.position # bkmLast.position
    /\ \E b \in bkmBefore \cap bookmarks : b.page = bkmLast.page

\* ------------------------------------------------------------------------
\* C14
\* ------------------------------------------------------------------------

\* The user gave no text: the dialog was cancelled, or the text is empty or
\* consists of blanks only.
NoTextGiven(d) == ~d.ok \/ \A i \in 1..Len(d.text) : d.text[i] = " "

\* C14: no comment is ever stored with empty content; a comment request
\* whose text is empty, whitespace-only or cancelled creates no comment and
\* leaves the store unchanged.
C14_NoEmptyComment ==
    /\ \A n \in notes : n.content # <<>> /\ \E i \in 1..Len(n.content) : n.content[i] # " "
    /\ (noteLast.outcome # "None" /\ NoTextGiven(noteLast.answer)) =>
          /\ noteLast.outcome = "Nothing"
          /\ notes = noteBefore

\* A request answered with blanks only has been handled while a comment is
\* stored.
C14_Witness ==
    /\ noteLast.outcome = "Nothing"
    /\ noteLast.answer.ok
    /\ noteLast.answer.text # <<>>
    /\ notes # {}
    /\ notes = noteBefore

\* ------------------------------------------------------------------------
\* C15
\* ------------------------------------------------------------------------

\* C15: creating a highlight together with its tags is atomic: no commit
\* of the creating request persists the new highlight without the tags
\* requested in the same request.
C15_AtomicCreate ==
    last.outcome = "Created" =>
        \A i \in 1..Len(commits) :
            \A n \in commits[i] :
                n.id = last.id => n.tags = QuoteById(quotes, last.id).tags

\* ------------------------------------------------------------------------
\* C16
\* ------------------------------------------------------------------------

\* The candidate [x, y] shares a position with the stored highlight q.
Intersects(q, x, y) == x <= q.end_pos /\ q.start_pos <= y

\* C16: a selection [x, y] that overlaps a stored range while no stored
\* range meets one of the cases 1-4 (it strictly encloses the range, or
\* lies inside it sharing exactly one endpoint) is answered Created: a new
\* highlight [x, y] is stored and the overlapped range stays stored
\* unchanged.
C16_OverlapCreated ==
    ( /\ Handled
      /\ \E q \in before : Intersects(q, last.x, last.y)
      /\ \A q \in before : ~MatchesCase(q, last.x, last.y) ) =>
        /\ last.outcome = "Created"
        /\ \E n \in quotes :
              /\ n.id = last.id /\ n.start_pos = last.x /\ n.end_pos = last.y
              /\ \A q \in before : q.id # n.id
              /\ quotes = before \cup {n}

\* A selection strictly enclosing a stored range has been stored next to it.
C16_WitnessEnclosing ==
    /\ last.outcome = "Created"
    /\ \E q \in before : last.x < q.start_pos /\ last.y > q.end_pos /\ q \in quotes

\* A selection inside a stored range, sharing exactly one endpoint with it,
\* has been stored next to it.
C16_Witness ==
    /\ last.outcome = "Created"
    /\ \E q \in before :
          /\ q \in quotes
          /\ \/ last.x = q.start_pos /\ last.y < q.end_pos
             \/ last.x > q.start_pos /\ last.y = q.end_pos

\* ------------------------------------------------------------------------
\* C17
\* ------------------------------------------------------------------------

\* C17: an ExtendedStart or ExtendedEnd outcome changes exactly one bound
\* of exactly one highlight; its id, its other bound, its content snapshot
\* and its tags, and every other highlight of the page, are unchanged.
C17_ExtensionFrame ==
    last.outcome \in {"ExtendedStart", "ExtendedEnd"} =>
        \E o \in before, n \in quotes :
            /\ o.id = last.id /\ n.id = o.id
            /\ quotes \ {n} = before \ {o}
            /\ n.content = o.content
            /\ n.tags = o.tags
            /\ IF last.outcome = "ExtendedStart"
               THEN n.end_pos = o.end_pos /\ n.start_pos # o.start_pos
               ELSE n.start_pos = o.start_pos /\ n.end_pos # o.end_pos

\* A tagged highlight has had a bound moved while another highlight is
\* stored on the page.
C17_Witness ==
    /\ last.outcome \in {"ExtendedStart", "ExtendedEnd"}
    /\ Cardinality(quotes) = 2
    /\ \E n \in quotes : n.id = last.id /\ n.tags # <<>>

\* ------------------------------------------------------------------------
\* C18
\* ------------------------------------------------------------------------

Min(a, b) == IF a <= b THEN a ELSE b
Max(a, b) == IF a >= b THEN a ELSE b

\* C18: after ExtendedStart or ExtendedEnd on the stored [s, e] with the
\* candidate [x, y] the stored range is [min(s, x), max(e, y)]; it holds
\* the old range and the candidate and is strictly larger than the old
\* range.
C18_ExtensionGrows ==
    last.outcome \in {"ExtendedStart", "ExtendedEnd"} =>
        \E o \in before, n \in quotes :
            /\ o.id = last.id /\ n.id = o.id
            /\ n.start_pos = Min(o.start_pos, last.x)
            /\ n.end_pos = Max(o.end_pos, last.y)
            /\ n.start_pos <= o.start_pos /\ o.end_pos <= n.end_pos
            /\ n.start_pos <= last.x /\ last.y <= n.end_pos
            /\ n.end_pos - n.start_pos > o.end_pos - o.start_pos

\* The start of a stored range has been moved down by a selection ending
\* inside it.
C18_Witness ==
    /\ last.outcome = "ExtendedStart"
    /\ \E o \in before, n \in quotes :
          /\ o.id = last.id /\ n.id = o.id
          /\ n.start_pos < o.start_pos
          /\ last.y > o.start_pos

\* ------------------------------------------------------------------------
\* C19
\* ------------------------------------------------------------------------

\* C19: a candidate [x, y] that intersects no stored range, selected twice
\* in a row, is answered Created and then Removed, and the second request
\* leaves the page's stored highlights exactly as they were before the
\* first one.
C19_ToggleRoundTrip ==
    [][ ( /\ last.outcome = "Created"
          /\ \A q \in before : Disjoint(q, last.x, last.y)
          /\ last'.x = last.x /\ last'.y = last.y ) =>
            /\ last'.outcome = "Removed"
            /\ quotes' = before ]_vars

\* A highlight that was stored as selected, apart from every other stored
\* range, has been removed by selecting it again on a page that holds
\* another highlight.
C19_Witness ==
    /\ last.outcome = "Removed"
    /\ quotes # {}
    /\ \A q \in quotes : Disjoint(q, last.x, last.y)
    /\ \E o \in before :
          /\ o.id = last.id
          /\ o.content = GetStringSelection(last.x, last.y)
          /\ quotes = before \ {o}

\* ------------------------------------------------------------------------
\* C21
\* ------------------------------------------------------------------------

\* C21: a highlight request made with an empty selection (x = y) changes
\* nothing, whatever ranges the page holds: it is answered "No selection",
\* the stored highlights, with their bounds, contents and tags, are those
\* held when the handler was entered, and nothing is committed.
C21_EmptySelectionNoEffect ==
    (last.outcome # "None" /\ last.x = last.y) =>
        /\ last.outcome = "NoSelection"
        /\ quotes = before
        /\ commits = <<>>

\* An empty selection has been handled with the caret on a bound of one
\* stored range and strictly inside another one.
C21_Witness ==
    /\ last.outcome = "NoSelection"
    /\ last.x = last.y
    /\ quotes = before
    /\ \E q \in quotes : q.start_pos = last.x \/ q.end_pos = last.x
    /\ \E q \in quotes : q.start_pos < last.x /\ last.x < q.end_pos

====
